---- MODULE Spec2Model ----
(***************************************************************************)
(* Beeftext: the combo table frame (src/Combo/ComboTableFrame.cpp) and the *)
(* preferences manager (src/PreferencesManager.cpp).                       *)
(*                                                                         *)
(* The combo list is a sequence of combo records in source (internal)      *)
(* order; rows and indexes are 0-based as in the C++ code, so the record   *)
(* at source index i is list[i + 1].  The table shows the list through a   *)
(* QSortFilterProxyModel: the rows whose column 0 contains the filter      *)
(* string, sorted ascending on column 0.                                   *)
(***************************************************************************)
EXTENDS Integers, Sequences, FiniteSets

VARIABLES comboList, disk, selection, filter, lastOp, settings, written, lastPref

varsCombo == <<comboList, disk, selection, filter, lastOp>>
varsPrefs == <<settings, written, lastPref>>
vars == <<comboList, disk, selection, filter, lastOp, settings, written, lastPref>>

\* Largest number of combos the list holds in the model.
MaxLen == 3

----------------------------------------------------------------------------
(* Strings are sequences of characters. *)

\* Code point order of the characters used.
Ord(c) == CASE c = " " -> 32 [] c = "a" -> 97 [] c = "b" -> 98

\* The names a combo can be given in the combo dialog (column 0 of the table).
Names == {<<"a">>, <<"b", "a">>}

\* The texts typed in the search box.
SearchTexts == {<<>>, <<" ", "b", " ">>}

\* The error messages a failed save can report.
SaveMessages == {"cannot write"}

RECURSIVE TrimLeft(_)
TrimLeft(s) == IF s # <<>> /\ Head(s) = " " THEN TrimLeft(Tail(s)) ELSE s

RECURSIVE TrimRight(_)
TrimRight(s) ==
    IF s # <<>> /\ s[Len(s)] = " " THEN TrimRight(SubSeq(s, 1, Len(s) - 1)) ELSE s

\* QString::trimmed
trimmed(s) == TrimRight(TrimLeft(s))

\* QString::contains, case sensitive: f occurs in s as a substring.
Contains(s, f) ==
    \E i \in 1..(Len(s) - Len(f) + 1) : SubSeq(s, i, i + Len(f) - 1) = f

\* QString operator<: lexicographic on code points.
RECURSIVE LessThan(_, _)
LessThan(s, t) ==
    IF t = <<>> THEN FALSE
    ELSE IF s = <<>> THEN TRUE
    ELSE IF Ord(Head(s)) # Ord(Head(t)) THEN Ord(Head(s)) < Ord(Head(t))
    ELSE LessThan(Tail(s), Tail(t))

----------------------------------------------------------------------------
(* The filter/sort proxy. *)

\* The source rows the proxy accepts under filter string f.
AcceptedRows(list, f) ==
    {i \in 0..(Len(list) - 1) : Contains(list[i + 1].name, f)}

\* Source row i is displayed before source row j: ascending on column 0, rows
\* with equal keys in source order (the proxy sorts with a stable sort).
DisplayedBefore(list, i, j) ==
    \/ LessThan(list[i + 1].name, list[j + 1].name)
    \/ list[i + 1].name = list[j + 1].name /\ i < j

\* The proxy's mapping: element r + 1 is the source row of display row r.
ProxyRows(list, f) ==
    LET RECURSIVE Sorted(_)
        Sorted(acc) ==
            IF acc = {} THEN <<>>
            ELSE LET first == CHOOSE i \in acc :
                                 \A j \in acc \ {i} : DisplayedBefore(list, i, j)
                 IN  <<first>> \o Sorted(acc \ {first})
    IN  Sorted(AcceptedRows(list, f))

\* proxyModel_.mapToSource(index).row(), proxy being the proxy's mapping: -1
\* (an invalid index) for a display row the proxy does not hold.
mapToSource(proxy, row) ==
    IF row >= 0 /\ row < Len(proxy) THEN proxy[row + 1] ELSE -1

\* selectionModel()->selectedRows(): the selected display rows, top to bottom.
\* sel is the selection as the set of source rows its persistent indexes
\* stand for.
selectedRows(proxy, sel) ==
    LET RECURSIVE Collect(_)
        Collect(r) ==
            IF r >= Len(proxy) THEN <<>>
            ELSE (IF proxy[r + 1] \in sel THEN <<r>> ELSE <<>>) \o Collect(r + 1)
    IN  Collect(0)

getSelectedComboCount(proxy, sel) == Len(selectedRows(proxy, sel))

\* A getSelectedComboIndexes that returns the display row of each selected row.
getSelectedComboIndexes_displayRow(list, proxy, sel) == selectedRows(proxy, sel)

getSelectedComboIndexes(list, proxy, sel) ==
    LET rows == selectedRows(proxy, sel)
        RECURSIVE Loop(_)
        Loop(k) ==
            IF k > Len(rows) THEN <<>>
            ELSE LET index == mapToSource(proxy, rows[k])
                 IN  (IF index >= 0 /\ index < Len(list) THEN <<index>> ELSE <<>>)
                        \o Loop(k + 1)
    IN  Loop(1)

----------------------------------------------------------------------------
(* One run of a handler.  A frame carries the state the handler works on   *)
(* (the list, the saved file, the selection) and the calls it has made.    *)

\* The frame a handler starts with.
Enter(list, dsk, sel) ==
    [list |-> list, disk |-> dsk, sel |-> sel, events |-> <<>>,
     indexes |-> <<>>, erased |-> <<>>, marked |-> <<>>, question |-> "none",
     answer |-> "none", name |-> <<>>,
     saved |-> "none", errorMessage |-> "", critical |-> "none"]

\* Combo::create(): a new combo, nothing filled in.
ComboCreate == [name |-> <<>>]

\* Combo::duplicate(combo): a new combo with the content of combo.
ComboDuplicate(combo) == [name |-> combo.name]

\* ComboDialog(combo).exec(): an accepted dialog has written the edited
\* fields to the combo, a rejected one has not touched it.
ComboDialogExec(combo, dlg) ==
    IF dlg.accepted THEN [combo EXCEPT !.name = dlg.name] ELSE combo

\* The frame after dlg.exec(): the dialog was shown and answered.
DialogShown(fr, dlg) ==
    [fr EXCEPT !.events = Append(@, "dialog"),
               !.answer = IF dlg.accepted THEN "Accepted" ELSE "Rejected",
               !.name = IF dlg.accepted THEN dlg.name ELSE @]

\* The frame after QMessageBox::question(...): the prompt for count selected
\* combos was shown and answered.
QuestionAsked(fr, count, answer) ==
    [fr EXCEPT !.events = Append(@, "question"),
               !.question = IF count > 1 THEN "combos" ELSE "combo",
               !.answer = answer]

\* ComboList::append(combo)
append(fr, combo) ==
    [fr EXCEPT !.list = Append(@, combo), !.events = Append(@, "append")]

\* ComboList::erase(index): removes the record at index; the selection's
\* persistent indexes follow the rows (the erased row leaves the selection,
\* the rows after it move up by one).
erase(fr, index) ==
    IF index < 0 \/ index >= Len(fr.list)
    THEN [fr EXCEPT !.events = Append(@, "erase"), !.erased = Append(@, index)]
    ELSE [fr EXCEPT
            !.list = SubSeq(@, 1, index) \o SubSeq(@, index + 2, Len(@)),
            !.sel = {i \in @ : i < index} \cup {i - 1 : i \in {j \in @ : j > index}},
            !.events = Append(@, "erase"),
            !.erased = Append(@, index)]

\* ComboList::markComboAsEdited(index)
markComboAsEdited(fr, index) ==
    [fr EXCEPT !.events = Append(@, "mark"), !.marked = Append(@, index)]

\* ComboManager::saveComboListToFile(&errorMessage): sv.ok says whether the
\* write succeeds; a failed save leaves the file as it was and puts sv.msg in
\* errorMessage.
saveComboListToFile(fr, sv) ==
    [fr EXCEPT !.disk = IF sv.ok THEN fr.list ELSE @,
               !.errorMessage = IF sv.ok THEN @ ELSE sv.msg,
               !.saved = IF sv.ok THEN "ok" ELSE "failed",
               !.events = Append(@, "save")]

\* QMessageBox::critical(this, tr("Error"), errorMessage)
critical(fr, msg) ==
    [fr EXCEPT !.critical = msg, !.events = Append(@, "critical")]

\* if (!comboManager.saveComboListToFile(&errorMessage))
\*    QMessageBox::critical(this, tr("Error"), errorMessage);
SaveAndReport(fr, sv) ==
    LET saved == saveComboListToFile(fr, sv)
    IN  IF saved.saved # "ok" THEN critical(saved, saved.errorMessage) ELSE saved

\* The sort with the comparison the other way round: first < second.
RECURSIVE SortAscending(_)
SortAscending(s) ==
    IF s = <<>> THEN <<>>
    ELSE LET rest == SortAscending(Tail(s))
             n == Cardinality({k \in 1..Len(rest) : rest[k] < Head(s)})
         IN  SubSeq(rest, 1, n) \o <<Head(s)>> \o SubSeq(rest, n + 1, Len(rest))

\* std::sort(indexes.begin(), indexes.end(), first > second)
RECURSIVE SortDescending(_)
SortDescending(s) ==
    IF s = <<>> THEN <<>>
    ELSE LET rest == SortDescending(Tail(s))
             n == Cardinality({k \in 1..Len(rest) : rest[k] > Head(s)})
         IN  SubSeq(rest, 1, n) \o <<Head(s)>> \o SubSeq(rest, n + 1, Len(rest))

\* for (qint32 index : indexes) erase(index)
RECURSIVE EraseAll(_, _)
EraseAll(fr, indexes) ==
    IF indexes = <<>> THEN fr
    ELSE EraseAll(erase(fr, Head(indexes)), Tail(indexes))

----------------------------------------------------------------------------
(* The handlers.  dlg is what the user does with the combo dialog, answer  *)
(* the answer to the confirmation prompt, sv the outcome of the save.      *)
(* The Q_ASSERT on the index in Duplicate and Edit restates the range      *)
(* check of getSelectedComboIndexes and changes nothing.                   *)

\* An Add that takes the appended combo back when
\* the save fails.
onActionAddCombo_rollsBack(list, dsk, proxy, sel, dlg, sv) ==
    LET fr == DialogShown(Enter(list, dsk, sel), dlg)
        combo == ComboDialogExec(ComboCreate, dlg)
        done == SaveAndReport(append(fr, combo), sv)
    IN  IF ~dlg.accepted THEN fr
        ELSE IF done.saved # "ok" THEN [done EXCEPT !.list = list]
        ELSE done

onActionAddCombo(list, dsk, proxy, sel, dlg, sv) ==
    LET fr == DialogShown(Enter(list, dsk, sel), dlg)
        combo == ComboDialogExec(ComboCreate, dlg)
    IN  IF ~dlg.accepted THEN fr
        ELSE SaveAndReport(append(fr, combo), sv)

\* A Duplicate that opens the dialog on the selected combo itself and appends
\* it, instead of on a copy.
onActionDuplicateCombo_noCopy(list, dsk, proxy, sel, dlg) ==
    LET selectedIndex == getSelectedComboIndexes(list, proxy, sel)
        fr == [Enter(list, dsk, sel) EXCEPT !.indexes = selectedIndex]
    IN  IF 1 # Len(selectedIndex) THEN fr
        ELSE LET index == selectedIndex[1]
                 combo == ComboDialogExec(list[index + 1], dlg)
                 shown == [DialogShown(fr, dlg) EXCEPT !.list[index + 1] = combo]
             IN  IF ~dlg.accepted THEN shown
                 ELSE append(shown, combo)

\* A Duplicate that saves the list after the append, as Add does.
onActionDuplicateCombo_saves(list, dsk, proxy, sel, dlg) ==
    LET selectedIndex == getSelectedComboIndexes(list, proxy, sel)
        fr == [Enter(list, dsk, sel) EXCEPT !.indexes = selectedIndex]
    IN  IF 1 # Len(selectedIndex) THEN fr
        ELSE LET index == selectedIndex[1]
                 combo == ComboDialogExec(ComboDuplicate(list[index + 1]), dlg)
             IN  IF ~dlg.accepted THEN DialogShown(fr, dlg)
                 ELSE SaveAndReport(append(DialogShown(fr, dlg), combo),
                                    [ok |-> TRUE, msg |-> ""])

onActionDuplicateCombo(list, dsk, proxy, sel, dlg) ==
    LET selectedIndex == getSelectedComboIndexes(list, proxy, sel)
        fr == [Enter(list, dsk, sel) EXCEPT !.indexes = selectedIndex]
    IN  IF 1 # Len(selectedIndex) THEN fr
        ELSE LET index == selectedIndex[1]
                 combo == ComboDialogExec(ComboDuplicate(list[index + 1]), dlg)
             IN  IF ~dlg.accepted THEN DialogShown(fr, dlg)
                 ELSE append(DialogShown(fr, dlg), combo)

\* A Delete that asks and then deletes whatever the answer is.
onActionDeleteCombo_ignoresAnswer(list, dsk, proxy, sel, answer, sv) ==
    LET count == getSelectedComboCount(proxy, sel)
        fr == Enter(list, dsk, sel)
        asked == QuestionAsked(fr, count, answer)
    IN  IF count < 1 THEN fr
        ELSE LET indexes == getSelectedComboIndexes(list, proxy, sel)
                 sorted == SortDescending(indexes)
             IN  SaveAndReport(
                    EraseAll([asked EXCEPT !.indexes = indexes], sorted), sv)

onActionDeleteCombo(list, dsk, proxy, sel, answer, sv) ==
    LET count == getSelectedComboCount(proxy, sel)
        fr == Enter(list, dsk, sel)
        asked == QuestionAsked(fr, count, answer)
    IN  IF count < 1 THEN fr
        ELSE IF answer # "Yes" THEN asked
        ELSE LET indexes == getSelectedComboIndexes(list, proxy, sel)
                 sorted == SortDescending(indexes)
             IN  SaveAndReport(
                    EraseAll([asked EXCEPT !.indexes = indexes], sorted), sv)

\* An Edit that only returns when nothing is selected, and edits the first
\* selected combo when several are.
onActionEditCombo_anyCount(list, dsk, proxy, sel, dlg, sv) ==
    LET selectedIndex == getSelectedComboIndexes(list, proxy, sel)
        fr == [Enter(list, dsk, sel) EXCEPT !.indexes = selectedIndex]
    IN  IF Len(selectedIndex) < 1 THEN fr
        ELSE LET index == selectedIndex[1]
                 combo == ComboDialogExec(list[index + 1], dlg)
                 shown == [DialogShown(fr, dlg) EXCEPT !.list[index + 1] = combo]
             IN  IF ~dlg.accepted THEN shown
                 ELSE SaveAndReport(markComboAsEdited(shown, index), sv)

\* An Edit that marks the display row of the selected combo as edited, not
\* its source index.
onActionEditCombo_marksDisplayRow(list, dsk, proxy, sel, dlg, sv) ==
    LET selectedIndex == getSelectedComboIndexes(list, proxy, sel)
        fr == [Enter(list, dsk, sel) EXCEPT !.indexes = selectedIndex]
    IN  IF 1 # Len(selectedIndex) THEN fr
        ELSE LET index == selectedIndex[1]
                 combo == ComboDialogExec(list[index + 1], dlg)
                 shown == [DialogShown(fr, dlg) EXCEPT !.list[index + 1] = combo]
             IN  IF ~dlg.accepted THEN shown
                 ELSE SaveAndReport(
                        markComboAsEdited(shown, selectedRows(proxy, sel)[1]), sv)

onActionEditCombo(list, dsk, proxy, sel, dlg, sv) ==
    LET selectedIndex == getSelectedComboIndexes(list, proxy, sel)
        fr == [Enter(list, dsk, sel) EXCEPT !.indexes = selectedIndex]
    IN  IF 1 # Len(selectedIndex) THEN fr
        ELSE LET index == selectedIndex[1]
                 combo == ComboDialogExec(list[index + 1], dlg)
                 shown == [DialogShown(fr, dlg) EXCEPT !.list[index + 1] = combo]
             IN  IF ~dlg.accepted THEN shown
                 ELSE SaveAndReport(markComboAsEdited(shown, index), sv)

----
(* The preferences store: QSettings as a map from key to QVariant. *)

kKeyGeometry == "Geometry"
kKeyAppExePath == "AppExePath"
kKeyPlaySoundOnCombo == "PlaySoundOnCombo"
kKeyAutoStartAtLogin == "AutoStartAtLogin"
kDefaultValuePlaySoundOnCombo == TRUE
kDefaultvalueAutoStartAtLogin == FALSE

Keys == {kKeyGeometry, kKeyAppExePath, kKeyPlaySoundOnCombo, kKeyAutoStartAtLogin}

\* A key the store does not contain.
Unset == [t |-> "unset", v |-> <<>>]
\* QVariant(bool), QVariant(QString), QVariant(QByteArray)
VBool(b) == [t |-> "bool", v |-> <<b>>]
VString(x) == [t |-> "string", v |-> <<x>>]
VBytes(x) == [t |-> "bytes", v |-> x]

\* What a boolean key can hold when the program starts: nothing, a boolean, or
\* the text a native store keeps for a boolean.
PriorBools == {Unset, VBool(TRUE), VBool(FALSE), VString("true"), VString("false")}
\* The geometry blobs the main window saves.
ByteArrays == {<<>>, <<1, 0>>}
PriorGeometry == {Unset} \cup {VBytes(x) : x \in ByteArrays}
\* The installer's entry.
PriorAppExePath == {Unset, VString("C:\\Beeftext\\Beeftext.exe")}

\* QSettings::setValue(key, value)
setValue(store, key, value) == [store EXCEPT ![key] = value]

\* QSettings::value(key, defaultValue)
value(store, key, defaultValue) ==
    IF store[key] = Unset THEN defaultValue ELSE store[key]

\* qvariant_cast<bool>: a boolean as it is, a text false when empty, "0" or
\* "false", anything else it cannot convert false.
qvariant_cast_bool(variant) ==
    IF variant.t = "bool" THEN variant.v[1]
    ELSE IF variant.t = "string" THEN variant.v[1] \notin {"", "0", "false"}
    ELSE FALSE

setAutoStartAtLogin(store, b) == setValue(store, kKeyAutoStartAtLogin, VBool(b))

getAutoStartAtLogin(store) ==
    qvariant_cast_bool(
        value(store, kKeyAutoStartAtLogin, VBool(kDefaultvalueAutoStartAtLogin)))

\* A setter that writes under the key of the other preference.
setPlaySoundOnCombo_otherKey(store, b) ==
    setValue(store, kKeyAutoStartAtLogin, VBool(b))

setPlaySoundOnCombo(store, b) == setValue(store, kKeyPlaySoundOnCombo, VBool(b))

getPlaySoundOnCombo(store) ==
    qvariant_cast_bool(
        value(store, kKeyPlaySoundOnCombo, VBool(kDefaultValuePlaySoundOnCombo)))

setMainWindowGeometry(store, array) == setValue(store, kKeyGeometry, VBytes(array))

\* A reset with the two default values exchanged.
reset_exchanged(store) ==
    setAutoStartAtLogin(
        setPlaySoundOnCombo(store, kDefaultvalueAutoStartAtLogin),
        kDefaultValuePlaySoundOnCombo)

reset(store) ==
    setAutoStartAtLogin(
        setPlaySoundOnCombo(store, kDefaultValuePlaySoundOnCombo),
        kDefaultvalueAutoStartAtLogin)

----------------------------------------------------------------------------
(* The state machine of the combo table frame. *)

\* What the user can do with the combo dialog.
DialogResults ==
    {[accepted |-> FALSE, name |-> <<>>]}
        \cup {[accepted |-> TRUE, name |-> n] : n \in Names}

\* How a save can end.
SaveResults ==
    {[ok |-> TRUE, msg |-> ""]} \cup {[ok |-> FALSE, msg |-> m] : m \in SaveMessages}

\* The answers to the confirmation prompt.
Answers == {"Yes", "No"}

RECURSIVE ListsOfLen(_)
ListsOfLen(n) ==
    IF n = 0 THEN {<<>>}
    ELSE {Append(l, [name |-> x]) : l \in ListsOfLen(n - 1), x \in Names}

\* The combo lists a saved file can hold.
SavedLists == UNION {ListsOfLen(n) : n \in 0..MaxLen}

\* No handler has run in the last step.
NoOp ==
    [op |-> "none", before |-> <<>>, diskBefore |-> <<>>, selBefore |-> {},
     filterBefore |-> <<>>, run |-> Enter(<<>>, <<>>, {})]

\* The frame is constructed on the list the manager loaded from the file:
\* nothing selected, no filter.  The preferences store is that of a first
\* start and is not used.
Init ==
    /\ comboList \in SavedLists
    /\ disk = comboList
    /\ selection = {}
    /\ filter = <<>>
    /\ lastOp = NoOp
    /\ settings = [k \in Keys |-> Unset]
    /\ written = [k \in {kKeyPlaySoundOnCombo, kKeyAutoStartAtLogin} |-> <<>>]
    /\ lastPref = [op |-> "none", arg |-> <<>>, before |-> [k \in Keys |-> Unset]]

\* The state a handler leaves, with the record of its run.  The proxy follows
\* the changes of the list: a row it no longer shows (an edited combo the
\* filter now rejects) leaves the selection.
Finish(op, result) ==
    LET fr == result
    IN  /\ comboList' = fr.list
        /\ disk' = fr.disk
        /\ selection' = fr.sel \cap AcceptedRows(fr.list, filter)
        /\ filter' = filter
        /\ lastOp' = [op |-> op, before |-> comboList, diskBefore |-> disk,
                      selBefore |-> selection, filterBefore |-> filter,
                      run |-> fr]
        /\ UNCHANGED varsPrefs

AddCombo ==
    /\ Len(comboList) < MaxLen
    /\ LET proxy == ProxyRows(comboList, filter)
       IN  \E dlg \in DialogResults, sv \in SaveResults :
              Finish("Add",
                  onActionAddCombo(comboList, disk, proxy, selection, dlg, sv))

DuplicateCombo ==
    /\ Len(comboList) < MaxLen
    /\ LET proxy == ProxyRows(comboList, filter)
       IN  \E dlg \in DialogResults :
              Finish("Duplicate",
                  onActionDuplicateCombo(comboList, disk, proxy, selection, dlg))

DeleteCombo ==
    LET proxy == ProxyRows(comboList, filter)
    IN  \E answer \in Answers, sv \in SaveResults :
           Finish("Delete",
                  onActionDeleteCombo(comboList, disk, proxy, selection, answer, sv))

EditCombo ==
    LET proxy == ProxyRows(comboList, filter)
    IN  \E dlg \in DialogResults, sv \in SaveResults :
           Finish("Edit",
                  onActionEditCombo(comboList, disk, proxy, selection, dlg, sv))

\* The user selects rows of the table: any set of the rows shown.
SelectRows ==
    /\ \E rows \in SUBSET AcceptedRows(comboList, filter) : selection' = rows
    /\ lastOp' = NoOp
    /\ UNCHANGED <<comboList, disk, filter>>
    /\ UNCHANGED varsPrefs

onActionSelectAll ==
    /\ selection' = AcceptedRows(comboList, filter)
    /\ lastOp' = NoOp
    /\ UNCHANGED <<comboList, disk, filter>>
    /\ UNCHANGED varsPrefs

onActionDeselectAll ==
    /\ selection' = {}
    /\ lastOp' = NoOp
    /\ UNCHANGED <<comboList, disk, filter>>
    /\ UNCHANGED varsPrefs

\* The proxy filters again; a row it no longer shows leaves the selection.
onSearchFilterChanged ==
    \E text \in SearchTexts :
        LET searchStr == trimmed(text)
        IN  /\ filter' = searchStr
            /\ selection' = selection \cap AcceptedRows(comboList, searchStr)
            /\ lastOp' = NoOp
            /\ UNCHANGED <<comboList, disk>>
            /\ UNCHANGED varsPrefs

Next ==
    \/ AddCombo
    \/ DuplicateCombo
    \/ DeleteCombo
    \/ EditCombo
    \/ SelectRows
    \/ onActionSelectAll
    \/ onActionDeselectAll
    \/ onSearchFilterChanged

Spec == Init /\ [][Next]_vars

----------------------------------------------------------------------------
(* The state machine of the preferences manager. *)

\* The store as an earlier run, or the installer, left it; the table frame
\* holds no combo and none of its handlers runs.
InitPrefs ==
    /\ settings \in [Keys -> PriorBools \cup PriorGeometry \cup PriorAppExePath]
    /\ settings[kKeyGeometry] \in PriorGeometry
    /\ settings[kKeyAppExePath] \in PriorAppExePath
    /\ settings[kKeyPlaySoundOnCombo] \in PriorBools
    /\ settings[kKeyAutoStartAtLogin] \in PriorBools
    /\ written = [k \in {kKeyPlaySoundOnCombo, kKeyAutoStartAtLogin} |-> <<>>]
    /\ lastPref = [op |-> "none", arg |-> <<>>, before |-> settings]
    /\ comboList = <<>>
    /\ disk = <<>>
    /\ selection = {}
    /\ filter = <<>>
    /\ lastOp = NoOp

PrefsStep(op, arg, store) ==
    /\ settings' = store
    /\ lastPref' = [op |-> op, arg |-> arg, before |-> settings]
    /\ UNCHANGED varsCombo

SetAutoStartAtLogin ==
    \E b \in BOOLEAN :
        /\ PrefsStep("setAutoStartAtLogin", <<b>>, setAutoStartAtLogin(settings, b))
        /\ written' = [written EXCEPT ![kKeyAutoStartAtLogin] = <<b>>]

SetPlaySoundOnCombo ==
    \E b \in BOOLEAN :
        /\ PrefsStep("setPlaySoundOnCombo", <<b>>, setPlaySoundOnCombo(settings, b))
        /\ written' = [written EXCEPT ![kKeyPlaySoundOnCombo] = <<b>>]

SetMainWindowGeometry ==
    \E array \in ByteArrays :
        /\ PrefsStep("setMainWindowGeometry", array,
                     setMainWindowGeometry(settings, array))
        /\ written' = written

Reset ==
    /\ PrefsStep("reset", <<>>, reset(settings))
    /\ written' = [written EXCEPT
                      ![kKeyPlaySoundOnCombo] = <<kDefaultValuePlaySoundOnCombo>>,
                      ![kKeyAutoStartAtLogin] = <<kDefaultvalueAutoStartAtLogin>>]

NextPrefs ==
    \/ SetAutoStartAtLogin
    \/ SetPlaySoundOnCombo
    \/ SetMainWindowGeometry
    \/ Reset

SpecPrefs == InitPrefs /\ [][NextPrefs]_vars

----------------------------------------------------------------------------
(* The properties. *)

\* The elements of a sequence.
Range(s) == {s[k] : k \in 1..Len(s)}

\* How often event e occurs in the record of a run.
Count(events, e) == Cardinality({k \in 1..Len(events) : events[k] = e})

\* list without the records at the source indexes in S, the others in order.
Without(list, S) ==
    LET F[k \in 0..Len(list)] ==
            IF k = 0 THEN <<>>
            ELSE IF (k - 1) \in S THEN F[k - 1]
            ELSE Append(F[k - 1], list[k])
    IN  F[Len(list)]

\* The last step ran handler op.
Ran(op) == lastOp.op = op

\* The last step ran Add, Delete or Edit up to its save: the dialog was
\* accepted or the deletion confirmed, with the selection the handler needs.
Performed ==
    \/ Ran("Add") /\ lastOp.run.answer = "Accepted"
    \/ Ran("Delete") /\ lastOp.selBefore # {} /\ lastOp.run.answer = "Yes"
    \/ Ran("Edit") /\ Cardinality(lastOp.selBefore) = 1
          /\ lastOp.run.answer = "Accepted"

\* The list Add, Delete or Edit leaves in memory, from the list before, the
\* selection before and what the user entered.
Mutated ==
    IF Ran("Add") THEN Append(lastOp.before, [name |-> lastOp.run.name])
    ELSE IF Ran("Delete") THEN Without(lastOp.before, lastOp.selBefore)
    ELSE [k \in 1..Len(lastOp.before) |->
             IF (k - 1) \in lastOp.selBefore
             THEN [name |-> lastOp.run.name] ELSE lastOp.before[k]]

\* C1: every index getSelectedComboIndexes returns, in any reachable state
\* and in the last run of a handler, is a source index of the list at the
\* time of the call (0 <= i < size) and is the source index of a selected
\* record.
Thm_C1_SelectedIndexesExist ==
    LET now == getSelectedComboIndexes(comboList, ProxyRows(comboList, filter),
                                       selection)
    IN  /\ \A k \in 1..Len(now) :
              /\ now[k] >= 0 /\ now[k] < Len(comboList)
              /\ now[k] \in selection
        /\ \A i \in Range(lastOp.run.indexes) :
              /\ i >= 0 /\ i < Len(lastOp.before)
              /\ i \in lastOp.selBefore

\* C1 witness: a handler has translated a selection made under a filter, and
\* the source index it got is not the display row.
Wit_C1_TranslatedUnderFilter ==
    /\ lastOp.op \in {"Duplicate", "Edit", "Delete"}
    /\ lastOp.filterBefore # <<>>
    /\ lastOp.run.indexes # <<>>
    /\ lastOp.run.indexes #
          selectedRows(ProxyRows(lastOp.before, lastOp.filterBefore),
                       lastOp.selBefore)

\* C2: a confirmed Delete of the non-empty set S of selected source indexes
\* leaves the list before without the records at S, the others in their
\* order; the erases go through S in descending order.
Thm_C2_DeleteRemovesExactlySelected ==
    (Ran("Delete") /\ lastOp.selBefore # {} /\ lastOp.run.answer = "Yes") =>
        /\ comboList = Without(lastOp.before, lastOp.selBefore)
        /\ Len(comboList) = Len(lastOp.before) - Cardinality(lastOp.selBefore)
        /\ Range(lastOp.run.erased) = lastOp.selBefore
        /\ \A k \in 1..(Len(lastOp.run.erased) - 1) :
              lastOp.run.erased[k] > lastOp.run.erased[k + 1]

\* C2 witness: two of three records deleted, the kept one not the last, and
\* the selected rows displayed in ascending source order.
Wit_C2_DeletedTwoOfThree ==
    /\ Ran("Delete") /\ lastOp.run.answer = "Yes"
    /\ Len(lastOp.before) = 3
    /\ lastOp.selBefore = {0, 2}
    /\ lastOp.run.indexes = <<0, 2>>
    /\ Len(comboList) = 1

\* C3: a rejected dialog of Add, Duplicate or Edit and a 'No' to the
\* confirmation of Delete leave the list and the file as they were, mark
\* nothing as edited and save nothing.
Thm_C3_CancelChangesNothing ==
    (lastOp.run.answer \in {"Rejected", "No"}) =>
        /\ comboList = lastOp.before
        /\ disk = lastOp.diskBefore
        /\ lastOp.run.marked = <<>>
        /\ Range(lastOp.run.events) \subseteq {"dialog", "question"}
        /\ lastOp.run.saved = "none"

\* C3 witness: the deletion of two selected combos was answered 'No'.
Wit_C3_DeleteAnsweredNo ==
    /\ Ran("Delete")
    /\ lastOp.run.answer = "No"
    /\ lastOp.run.question = "combos"
    /\ Cardinality(lastOp.selBefore) = 2

\* C4: an accepted Duplicate of the one selected record appends the clone as
\* the new last record: the size grows by one and the records before keep
\* their index and content, the original included.
Thm_C4_DuplicateAppendsClone ==
    (Ran("Duplicate") /\ Cardinality(lastOp.selBefore) = 1
        /\ lastOp.run.answer = "Accepted") =>
        /\ Len(comboList) = Len(lastOp.before) + 1
        /\ SubSeq(comboList, 1, Len(lastOp.before)) = lastOp.before
        /\ comboList[Len(comboList)] = [name |-> lastOp.run.name]
        /\ Count(lastOp.run.events, "append") = 1
        /\ Count(lastOp.run.events, "erase") = 0

\* C4 witness: the first of two records was duplicated and the clone renamed
\* in the dialog.
Wit_C4_DuplicatedAndRenamed ==
    /\ Ran("Duplicate") /\ lastOp.run.answer = "Accepted"
    /\ lastOp.selBefore = {0}
    /\ Len(lastOp.before) = 2
    /\ lastOp.run.name # lastOp.before[1].name

\* C5: Duplicate and Edit with zero or several selected records, and Delete
\* with none, open no dialog and no prompt, leave the list, the file and the
\* selection as they were and do not save.
Thm_C5_UnmetPreconditionIsNoOp ==
    (\/ lastOp.op \in {"Duplicate", "Edit"} /\ Cardinality(lastOp.selBefore) # 1
     \/ Ran("Delete") /\ lastOp.selBefore = {}) =>
        /\ lastOp.run.events = <<>>
        /\ lastOp.run.answer = "none"
        /\ comboList = lastOp.before
        /\ disk = lastOp.diskBefore
        /\ selection = lastOp.selBefore

\* C5 witness: Edit was invoked with two records selected.
Wit_C5_EditWithTwoSelected ==
    /\ Ran("Edit")
    /\ Cardinality(lastOp.selBefore) = 2

\* C6 as stated, for a file that holds no combo (equal lists then hold the
\* same records: none): after a failed save the memory keeps the mutation, the
\* error dialog carries the save's message, and the list in memory differs
\* from the list on disk; after a successful save they are equal.
CEx_C6_DifferentUntilSaved ==
    (Performed /\ lastOp.diskBefore = <<>>) =>
        /\ comboList = Mutated
        /\ lastOp.run.saved = "failed" =>
              /\ lastOp.run.critical = lastOp.run.errorMessage
              /\ comboList # disk
        /\ lastOp.run.saved = "ok" => comboList = disk

\* C6 amended: after a failed save the memory keeps the mutation, the error
\* dialog carries the save's message and nothing is shown after a successful
\* save; the list in memory may or may not differ from the list on disk after
\* a failed save, and after a successful save they are equal.
Thm_C6_FailedSaveKeepsMutation ==
    Performed =>
        /\ comboList = Mutated
        /\ lastOp.run.saved \in {"ok", "failed"}
        /\ lastOp.run.saved = "failed" =>
              /\ lastOp.run.errorMessage \in SaveMessages
              /\ lastOp.run.critical = lastOp.run.errorMessage
              /\ Count(lastOp.run.events, "critical") = 1
        /\ lastOp.run.saved = "ok" =>
              /\ comboList = disk
              /\ lastOp.run.critical = "none"
              /\ Count(lastOp.run.events, "critical") = 0

\* C6 witness: the save after an accepted Add failed, and the list in memory
\* holds a record the list on disk does not.
Wit_C6_AddSaveFailed ==
    /\ Ran("Add") /\ lastOp.run.saved = "failed"
    /\ lastOp.before = disk
    /\ Len(comboList) = Len(disk) + 1

\* C7: Add, Delete and Edit, when performed, attempt exactly one save, after
\* every append, erase and markComboAsEdited; Duplicate attempts none and
\* leaves the file as it was; the file changes only in a step of Add, Delete
\* or Edit whose save succeeded.
Thm_C7_OneSaveAfterMutation ==
    /\ Performed =>
          /\ Count(lastOp.run.events, "save") = 1
          /\ \A k \in 1..Len(lastOp.run.events) :
                lastOp.run.events[k] = "save" =>
                    \A j \in (k + 1)..Len(lastOp.run.events) :
                        lastOp.run.events[j] \notin {"append", "erase", "mark"}
          /\ Count(lastOp.run.events, "append") = (IF Ran("Add") THEN 1 ELSE 0)
          /\ Count(lastOp.run.events, "mark") = (IF Ran("Edit") THEN 1 ELSE 0)
          /\ Count(lastOp.run.events, "erase") =
                (IF Ran("Delete") THEN Cardinality(lastOp.selBefore) ELSE 0)
    /\ Ran("Duplicate") =>
          /\ Count(lastOp.run.events, "save") = 0
          /\ lastOp.run.saved = "none"
          /\ disk = lastOp.diskBefore
    /\ (lastOp.op # "none" /\ disk # lastOp.diskBefore) =>
          /\ lastOp.op \in {"Add", "Delete", "Edit"}
          /\ lastOp.run.saved = "ok"

\* C7 witness: an accepted Duplicate on a saved list: the list in memory is
\* the list on disk and the clone.
Wit_C7_DuplicateNotSaved ==
    /\ Ran("Duplicate") /\ lastOp.run.answer = "Accepted"
    /\ lastOp.before = lastOp.diskBefore
    /\ Len(comboList) = Len(disk) + 1
    /\ SubSeq(comboList, 1, Len(disk)) = disk

\* C8: an accepted Edit of the one selected record leaves the size of the
\* list and every other record as they were, writes the edit to the record at
\* the selected source index, calls markComboAsEdited once, for that index,
\* and appends and erases nothing.
Thm_C8_EditInPlace ==
    (Ran("Edit") /\ Cardinality(lastOp.selBefore) = 1
        /\ lastOp.run.answer = "Accepted") =>
        /\ Len(comboList) = Len(lastOp.before)
        /\ \A i \in 0..(Len(comboList) - 1) :
              comboList[i + 1] =
                 IF i \in lastOp.selBefore THEN [name |-> lastOp.run.name]
                 ELSE lastOp.before[i + 1]
        /\ Len(lastOp.run.marked) = 1
        /\ Range(lastOp.run.marked) = lastOp.selBefore
        /\ Count(lastOp.run.events, "append") = 0
        /\ Count(lastOp.run.events, "erase") = 0

\* C8 witness: the record edited and renamed is displayed on another row than
\* its source index, in a list of three.
Wit_C8_EditedRenamed ==
    /\ Ran("Edit") /\ lastOp.run.answer = "Accepted"
    /\ Len(lastOp.before) = 3
    /\ Cardinality(lastOp.selBefore) = 1
    /\ lastOp.run.indexes #
          selectedRows(ProxyRows(lastOp.before, lastOp.filterBefore),
                       lastOp.selBefore)
    /\ \E i \in lastOp.selBefore : lastOp.before[i + 1].name # lastOp.run.name

\* C9: whatever the store held, after reset() PlaySoundOnCombo is stored as
\* true and AutoStartAtLogin as false, Geometry and AppExePath are as they
\* were (present or not, same value), and a second reset() changes nothing.
Thm_C9_ResetRestoresDefaults ==
    (lastPref.op = "reset") =>
        /\ settings[kKeyPlaySoundOnCombo] = VBool(TRUE)
        /\ settings[kKeyAutoStartAtLogin] = VBool(FALSE)
        /\ getPlaySoundOnCombo(settings) = TRUE
        /\ getAutoStartAtLogin(settings) = FALSE
        /\ settings[kKeyGeometry] = lastPref.before[kKeyGeometry]
        /\ settings[kKeyAppExePath] = lastPref.before[kKeyAppExePath]
        /\ reset(settings) = settings

\* C9 witness: reset() on a store that held the opposite of both defaults, a
\* geometry and an application path.
Wit_C9_ResetFromOpposite ==
    /\ lastPref.op = "reset"
    /\ getPlaySoundOnCombo(lastPref.before) = FALSE
    /\ getAutoStartAtLogin(lastPref.before) = TRUE
    /\ lastPref.before[kKeyGeometry] # Unset
    /\ lastPref.before[kKeyAppExePath] # Unset

====
